---- MODULE Spec2Model ----
(***************************************************************************)
(* NdjsonWriter.write of src/url/ndjson_writer.py as a state machine.      *)
(*                                                                         *)
(* Numbers.  A raw evaluator score is an integer number of ten-thousandths *)
(* (4996 is 0.4996).  A value stored in all_metrics or in a record is an   *)
(* integer number of thousandths (500 is 0.5), which is what               *)
(* round(float(score), 3) leaves.  Weights are hundredths (15 is 0.15).    *)
(* Latencies are integer milliseconds.  Binary floating point error is not *)
(* modelled: the raw scores drawn below never lie on a rounding tie, and   *)
(* the statement about NET_SCORE accepts either neighbour on a tie.        *)
(***************************************************************************)
EXTENDS Integers, Sequences, FiniteSets, TLC

VARIABLES
    items,          \* the ModelItem urls the caller passes to write, in call order
    behaviours,     \* the outcomes the evaluators can produce in this run
    dev_cap,        \* how many evaluators of one write may leave the nominal outcome
    idx,            \* number of write calls begun so far
    pc,             \* position inside write: idle, eval, assemble, write, flush, escaped
    block,          \* index in EvalOrder of the try block to execute next
    all_metrics,    \* local all_metrics: metric name -> value in thousandths
    total_latency,  \* local total_latency
    record,         \* local record, built at lines 113-126
    out,            \* lines written to self.out, oldest first
    flushed,        \* number of lines of out that a flush has pushed through
    res,            \* history: outcome of each evaluator invoked in the current write
    contrib,        \* history: what each invocation added to total_latency
    invoked         \* history: evaluators invoked in the current write, in order

vars == <<items, behaviours, dev_cap, idx, pc, block, all_metrics, total_latency,
          record, out, flushed, res, contrib, invoked>>

----------------------------------------------------------------------------
(* Bounds of the model *)

MaxItems == 2

----------------------------------------------------------------------------
(* Fixed tables of the program *)

EvalOrder ==
    << "ramp_up_time", "bus_factor", "license", "performance_claims",
       "size_score", "dataset_and_code_score", "dataset_quality", "code_quality" >>

Metrics == { EvalOrder[i] : i \in 1..Len(EvalOrder) }

weights ==
    [ ramp_up_time |-> 15, bus_factor |-> 10, performance_claims |-> 15,
      license |-> 15, size_score |-> 15, dataset_and_code_score |-> 10,
      dataset_quality |-> 10, code_quality |-> 10 ]

WeightOrder ==
    << "ramp_up_time", "bus_factor", "performance_claims", "license",
       "size_score", "dataset_and_code_score", "dataset_quality", "code_quality" >>

----------------------------------------------------------------------------
(* The collaborators: urls, the identity resolver, evaluator outcomes *)

HfUrl == "https://huggingface.co/bert-base-uncased"
OtherUrl == "https://example.com/some/model"
BareUrl == "https://huggingface.co/"

Urls == { HfUrl, OtherUrl, BareUrl }

\* _hf_model_id_from_url: an identifier, None, or the empty string.
\* found = FALSE is None.
hf_model_id_from_url(url) ==
    IF url = HfUrl THEN [found |-> TRUE, id |-> "bert-base-uncased"]
    ELSE IF url = BareUrl THEN [found |-> TRUE, id |-> ""]
    ELSE [found |-> FALSE, id |-> ""]

\* What one call of calculate(url) can do: raise, return None (absent), or
\* return a result whose score is None (sk = "none"), something float() rejects
\* (sk = "invalid") or a number, and whose latency_ms is None or an integer.
Raise == [kind |-> "raise", sk |-> "none", sv |-> 0, lk |-> "none", lv |-> 0]
Absent == [kind |-> "absent", sk |-> "none", sv |-> 0, lk |-> "none", lv |-> 0]

Result(s, l) == [kind |-> "result", sk |-> s[1], sv |-> s[2], lk |-> l[1], lv |-> l[2]]

Scores ==
    { <<"none", 0>>, <<"invalid", 0>> }
        \cup { <<"num", v>> : v \in { -2534, 4996, 5000, 10000, 15000 } }

Latencies == { <<"none", 0>> } \cup { <<"num", v>> : v \in { 0, 10, -5 } }

Outcomes == { Raise, Absent } \cup { Result(s, l) : s \in Scores, l \in Latencies }

Nominal == Result(<<"num", 10000>>, <<"num", 10>>)

BatchOutcomes == { Raise, Result(<<"none", 0>>, <<"num", 10>>) }

----------------------------------------------------------------------------
(* Pure helpers *)

Max(a, b) == IF a >= b THEN a ELSE b

\* n / d rounded to the nearest integer, ties to the even neighbour (d > 0).
RoundDiv(n, d) ==
    LET q == n \div d
        r == n - q * d
    IN  IF 2 * r < d THEN q
        ELSE IF 2 * r > d THEN q + 1
        ELSE IF q % 2 = 0 THEN q ELSE q + 1

\* round(float(score), 3): ten-thousandths to thousandths.
Round3(sv) == RoundDiv(sv, 10)

\* "x.latency_ms if x.latency_ms else 0": None and 0 are falsy.
LatencyOrZero(o) == IF o.lk = "num" /\ o.lv # 0 THEN o.lv ELSE 0

EmptyMap == [m \in {} |-> 0]

Fault == [fault |-> TRUE, value |-> 0, lat |-> 0]
Done(v, l) == [fault |-> FALSE, value |-> v, lat |-> l]

----------------------------------------------------------------------------
(* The try bodies.  Each returns Fault when the body raises before it has  *)
(* finished, and otherwise the value it stored and the latency it added.   *)

\* ramp_up_time, bus_factor, size_score, dataset_and_code_score,
\* dataset_quality, code_quality: "res.score" on None raises AttributeError,
\* a None score is guarded, float() of an invalid score raises.
StandardBlock(o) ==
    IF o.kind = "raise" \/ o.kind = "absent" THEN Fault
    ELSE IF o.sk = "none" THEN Done(0, LatencyOrZero(o))
    ELSE IF o.sk = "invalid" THEN Fault
    ELSE Done(Round3(o.sv), LatencyOrZero(o))

\* license: no None guard, so float(None) raises TypeError.
LicenseBlock(o) ==
    IF o.kind = "raise" \/ o.kind = "absent" THEN Fault
    ELSE IF o.sk = "none" \/ o.sk = "invalid" THEN Fault
    ELSE Done(Round3(o.sv), LatencyOrZero(o))

\* Variant: the claims score is rounded and passed through like the others.
PerformanceClaimsBlockContinuous(o) ==
    IF o.kind = "raise" THEN Fault
    ELSE IF o.kind = "absent" THEN Done(0, 0)
    ELSE IF o.sk = "none" THEN Done(0, LatencyOrZero(o))
    ELSE IF o.sk = "invalid" THEN Fault
    ELSE Done(Round3(o.sv), LatencyOrZero(o))

\* performance_claims: "pc_res and ..." guards a None result; the raw score
\* is compared with 0.5 (5000 ten-thousandths) without rounding.
PerformanceClaimsBlock(o) ==
    IF o.kind = "raise" THEN Fault
    ELSE IF o.kind = "absent" THEN Done(0, 0)
    ELSE IF o.sk = "none" THEN Done(0, LatencyOrZero(o))
    ELSE IF o.sk = "invalid" THEN Fault
    ELSE Done(IF o.sv >= 5000 THEN 1000 ELSE 0, LatencyOrZero(o))

\* Variant: the license try statement has no except clause.
CatchesAllButLicense(m) == m # "license"

\* "except Exception" closes every one of the eight try statements.
Catches(m) == TRUE

\* Variant: the except branch resets the whole map.
ExceptBranchClearsAll(am, m) == [x \in DOMAIN am \cup {m} |-> 0]

\* The except branch: all_metrics[m] = 0.0.
ExceptBranch(am, m) == (m :> 0) @@ am

\* The try body's assignment all_metrics[m] = value.
StoreMetric(am, m, v) == (m :> v) @@ am

\* Variant: a raising evaluator is tried again.
NextBlockRetry(i, o) == IF o.kind = "raise" THEN i ELSE i + 1

\* Control falls from one try statement to the next, whatever happened in it.
NextBlock(i, o) == i + 1

----------------------------------------------------------------------------
(* Lines 91-126: NET_SCORE and the record *)

RECURSIVE WeightedSum(_, _)
WeightedSum(am, i) ==
    IF i > Len(WeightOrder) THEN 0
    ELSE LET m == WeightOrder[i]
         IN  (IF m \in DOMAIN am THEN am[m] * weights[m] ELSE 0) + WeightedSum(am, i + 1)

RECURSIVE TotalWeight(_, _)
TotalWeight(am, i) ==
    IF i > Len(WeightOrder) THEN 0
    ELSE LET m == WeightOrder[i]
         IN  (IF m \in DOMAIN am THEN weights[m] ELSE 0) + TotalWeight(am, i + 1)

\* Variant: the plain mean of the metrics present, weights ignored.
RECURSIVE PlainSum(_, _)
PlainSum(am, i) ==
    IF i > Len(WeightOrder) THEN 0
    ELSE (IF WeightOrder[i] \in DOMAIN am THEN am[WeightOrder[i]] ELSE 0) + PlainSum(am, i + 1)

NetScoreUnweighted(am) ==
    IF DOMAIN am # {} THEN RoundDiv(PlainSum(am, 1), Cardinality(DOMAIN am)) ELSE 0

\* round(net_score / total_weight, 3) if total_weight > 0 else 0.0
NetScore(am) ==
    IF TotalWeight(am, 1) > 0 THEN RoundDiv(WeightedSum(am, 1), TotalWeight(am, 1)) ELSE 0

\* all_metrics.get(m, 0.0)
Get(am, m) == IF m \in DOMAIN am THEN am[m] ELSE 0

\* Variant: no fallback to the url.
RecordNameNoFallback(url) == hf_model_id_from_url(url).id

\* _hf_model_id_from_url(item.model_url) or item.model_url
RecordName(url) ==
    LET r == hf_model_id_from_url(url)
    IN  IF r.found /\ r.id # "" THEN r.id ELSE url

\* Variant: no floor.
RecordLatencyNoFloor(tl) == tl

\* max(1, total_latency)
RecordLatency(tl) == Max(1, tl)

BuildRecord(url, am, tl) ==
    [ name |-> RecordName(url),
      category |-> "MODEL",
      NET_SCORE |-> NetScore(am),
      ramp_up_time |-> Get(am, "ramp_up_time"),
      bus_factor |-> Get(am, "bus_factor"),
      performance_claims |-> Get(am, "performance_claims"),
      license |-> Get(am, "license"),
      size_score |-> Get(am, "size_score"),
      dataset_and_code_score |-> Get(am, "dataset_and_code_score"),
      dataset_quality |-> Get(am, "dataset_quality"),
      code_quality |-> Get(am, "code_quality"),
      latency |-> RecordLatency(tl) ]

NoRecord == BuildRecord("", EmptyMap, 0)

\* Variant: the line is put in front of the earlier ones.
WriteLineFront(stream, line) == <<line>> \o stream

\* self.out.write(line): the line goes to the end of the stream.
WriteLine(stream, line) == Append(stream, line)

----------------------------------------------------------------------------
(* The state machine *)

Deviations(r) == Cardinality({ m \in DOMAIN r : r[m] # Nominal })

InitProgram ==
    /\ idx = 0
    /\ pc = "idle"
    /\ block = 1
    /\ all_metrics = EmptyMap
    /\ total_latency = 0
    /\ record = NoRecord
    /\ out = << >>
    /\ flushed = 0
    /\ res = EmptyMap
    /\ contrib = EmptyMap
    /\ invoked = << >>

\* One artifact; every evaluator picks freely between an outcome a and either
\* a itself, the nominal outcome or a raised exception.
InitSingle ==
    /\ items = << HfUrl >>
    /\ behaviours \in { {a, b} : a \in Outcomes, b \in {Nominal, Raise} } \cup { {a} : a \in Outcomes }
    /\ dev_cap = Len(EvalOrder)

\* Up to MaxItems artifacts; in each write at most one evaluator leaves the
\* nominal outcome.
InitBatch ==
    /\ items \in UNION { [1..n -> Urls] : n \in 1..MaxItems }
    /\ behaviours \in { {Nominal, x} : x \in BatchOutcomes }
    /\ dev_cap = 1

Init == InitProgram /\ (InitSingle \/ InitBatch)

\* write(item) is entered: lines 23-24.
BeginWrite ==
    /\ pc = "idle"
    /\ idx < Len(items)
    /\ idx' = idx + 1
    /\ pc' = "eval"
    /\ block' = 1
    /\ all_metrics' = EmptyMap
    /\ total_latency' = 0
    /\ res' = EmptyMap
    /\ contrib' = EmptyMap
    /\ invoked' = << >>
    /\ UNCHANGED <<items, behaviours, dev_cap, record, out, flushed>>

\* One try statement for metric m whose evaluator does o and whose body is body.
Invoke(m, o, body) ==
    /\ pc = "eval"
    /\ block <= Len(EvalOrder)
    /\ EvalOrder[block] = m
    /\ o \in behaviours
    /\ o # Nominal => Deviations(res) < dev_cap
    /\ res' = (m :> o) @@ res
    /\ invoked' = Append(invoked, m)
    /\ IF body.fault /\ ~Catches(m)
       THEN /\ pc' = "escaped"
            /\ contrib' = (m :> 0) @@ contrib
            /\ UNCHANGED <<block, all_metrics, total_latency>>
       ELSE /\ all_metrics' = IF body.fault THEN ExceptBranch(all_metrics, m)
                              ELSE StoreMetric(all_metrics, m, body.value)
            /\ total_latency' = IF body.fault THEN total_latency
                                ELSE total_latency + body.lat
            /\ contrib' = (m :> (total_latency' - total_latency)) @@ contrib
            /\ block' = NextBlock(block, o)
            /\ pc' = IF block' > Len(EvalOrder) THEN "assemble" ELSE "eval"
    /\ UNCHANGED <<items, behaviours, dev_cap, idx, record, out, flushed>>

InvokeStandard ==
    \E m \in Metrics \ {"license", "performance_claims"} :
        \E o \in Outcomes : Invoke(m, o, StandardBlock(o))

InvokeLicense ==
    \E o \in Outcomes : Invoke("license", o, LicenseBlock(o))

InvokePerformanceClaims ==
    \E o \in Outcomes : Invoke("performance_claims", o, PerformanceClaimsBlock(o))

\* Lines 91-126.
Assemble ==
    /\ pc = "assemble"
    /\ record' = BuildRecord(items[idx], all_metrics, total_latency)
    /\ pc' = "write"
    /\ UNCHANGED <<items, behaviours, dev_cap, idx, block, all_metrics, total_latency,
                   out, flushed, res, contrib, invoked>>

\* Line 129.
OutWrite ==
    /\ pc = "write"
    /\ out' = WriteLine(out, record)
    /\ pc' = "flush"
    /\ UNCHANGED <<items, behaviours, dev_cap, idx, block, all_metrics, total_latency,
                   record, flushed, res, contrib, invoked>>

\* Line 130, then write returns and its locals are gone.
OutFlush ==
    /\ pc = "flush"
    /\ flushed' = Len(out)
    /\ pc' = "idle"
    /\ block' = 1
    /\ all_metrics' = EmptyMap
    /\ total_latency' = 0
    /\ record' = NoRecord
    /\ res' = EmptyMap
    /\ contrib' = EmptyMap
    /\ invoked' = << >>
    /\ UNCHANGED <<items, behaviours, dev_cap, idx, out>>

Next ==
    \/ BeginWrite
    \/ InvokeStandard
    \/ InvokeLicense
    \/ InvokePerformanceClaims
    \/ Assemble
    \/ OutWrite
    \/ OutFlush

Spec == Init /\ [][Next]_vars

----------------------------------------------------------------------------
(* Vocabulary of the properties *)

\* The record of the current write has just been written: it is the last line.
Emitted == pc = "flush"
Last == out[Len(out)]

AllInvoked == DOMAIN res = Metrics

MissingScore(o) == o.kind = "result" /\ o.sk \in {"none", "invalid"}
ValidScore(o) == o.kind = "result" /\ o.sk = "num"

RECURSIVE SumContrib(_)
SumContrib(i) ==
    IF i > Len(EvalOrder) THEN 0
    ELSE (IF EvalOrder[i] \in DOMAIN contrib THEN contrib[EvalOrder[i]] ELSE 0)
            + SumContrib(i + 1)

\* The weighted sum of the eight metric fields of a record, weights in hundredths.
RecordWeightedSum(r) ==
    15 * r.ramp_up_time + 10 * r.bus_factor + 15 * r.performance_claims
        + 15 * r.license + 15 * r.size_score + 10 * r.dataset_and_code_score
        + 10 * r.dataset_quality + 10 * r.code_quality

\* What metric m is worth and adds to the latency total as a function of its
\* own evaluator's outcome alone.
OwnValue(m, o) ==
    IF ~ValidScore(o) THEN 0
    ELSE IF m = "performance_claims" THEN (IF o.sv >= 5000 THEN 1000 ELSE 0)
    ELSE Round3(o.sv)

OwnContribution(m, o) ==
    IF o.kind # "result" \/ o.sk = "invalid" THEN 0
    ELSE IF o.sk = "none" /\ m = "license" THEN 0
    ELSE LatencyOrZero(o)

----------------------------------------------------------------------------
(* The claims *)

\* C1: when a metric's evaluator raises during write, the emitted record
\* has 0.0 for that metric, no exception escapes write, and exactly one record
\* is appended for the call.
C1_RaisingEvaluatorYieldsZero ==
    /\ pc # "escaped"
    /\ Emitted =>
        /\ Len(out) = idx
        /\ \A m \in Metrics : res[m].kind = "raise" => Last[m] = 0

C1_Witness ==
    /\ Emitted
    /\ \A m \in Metrics : res[m] = Raise /\ Last[m] = 0
    /\ Len(out) = 1

\* C2: when an evaluator returns a result whose score is missing (None) or
\* invalid, the metric is 0.0 and the latency the result carries is not added
\* to the latency total.
C2_MissingScoreAddsNoLatency ==
    pc # "escaped" =>
        \A m \in DOMAIN res :
            MissingScore(res[m]) => all_metrics[m] = 0 /\ contrib[m] = 0

\* C3: performance_claims in an emitted record is exactly 0.0 or 1.0, and it
\* is 1.0 exactly when the claims evaluator returned, without fault, a raw
\* score >= 0.5.
C3_PerformanceClaimsIsBinary ==
    Emitted =>
        /\ Last.performance_claims \in {0, 1000}
        /\ Last.performance_claims = 1000 <=>
              (ValidScore(res["performance_claims"]) /\ res["performance_claims"].sv >= 5000)

C3_Witness ==
    /\ Emitted
    /\ ValidScore(res["performance_claims"])
    /\ res["performance_claims"].sv = 5000
    /\ Last.performance_claims = 1000

\* C4: NET_SCORE of an emitted record is the weighted sum of the eight metric
\* values of the same record divided by the weight sum, rounded to 3 decimals
\* (a nearest thousandth), and the weight sum used is the full one because all
\* eight metrics are present.
C4_NetScoreIsWeightedMean ==
    Emitted =>
        /\ DOMAIN all_metrics = Metrics
        /\ TotalWeight(all_metrics, 1) = 100
        /\ 2 * (100 * Last.NET_SCORE - RecordWeightedSum(Last)) <= 100
        /\ 2 * (RecordWeightedSum(Last) - 100 * Last.NET_SCORE) <= 100

C4_Witness ==
    /\ Emitted
    /\ \E m \in Metrics : res[m].kind = "raise"
    /\ \E m \in Metrics : ValidScore(res[m]) /\ Last[m] = -253
    /\ RecordWeightedSum(Last) % 100 \notin {0, 50}
    /\ Last.NET_SCORE # 0

\* C5: latency of an emitted record is max(1, sum of the eight latency
\* contributions of that write), hence >= 1; eight evaluators that each return
\* score 1.0 and latency 10 give latency 80, NET_SCORE 1.0, performance_claims 1.0.
C5_LatencyIsFlooredSum ==
    Emitted =>
        /\ Last.latency = Max(1, SumContrib(1))
        /\ Last.latency >= 1
        /\ (\A m \in Metrics : res[m] = Nominal) =>
              Last.latency = 80 /\ Last.NET_SCORE = 1000 /\ Last.performance_claims = 1000

C5_Witness ==
    /\ Emitted
    /\ \A m \in Metrics : ValidScore(res[m]) /\ res[m].lk = "num" /\ res[m].lv < 0
    /\ SumContrib(1) < 0
    /\ Last.latency = 1

\* C6: every emitted record has all eight metric fields and NET_SCORE, each
\* within 0..1, whatever raw scores the evaluators return.
C6_ValuesWithinUnitRange ==
    Emitted =>
        /\ \A m \in Metrics : Last[m] >= 0 /\ Last[m] <= 1000
        /\ Last.NET_SCORE >= 0 /\ Last.NET_SCORE <= 1000

\* C7: the stream holds one line per completed call, the i-th line is the
\* record of the i-th call's artifact, and every line is flushed before the
\* next one is written.
C7_OneLinePerCallInOrder ==
    /\ Len(out) = (IF pc \in {"eval", "assemble", "write"} THEN idx - 1 ELSE idx)
    /\ \A i \in 1..Len(out) : out[i].name = RecordName(items[i])
    /\ flushed = (IF pc = "flush" THEN Len(out) - 1 ELSE Len(out))

C7_Witness ==
    /\ pc = "idle"
    /\ Len(out) = 2
    /\ flushed = 2
    /\ items[1] # items[2]
    /\ out[1].name # out[2].name

\* C8: name is the identifier the resolver returns for the url when it returns
\* one, and the raw url when it returns none (None or the empty string).
C8_NameFallsBackToUrl ==
    \A i \in 1..Len(out) :
        LET r == hf_model_id_from_url(items[i])
        IN  out[i].name = (IF r.found /\ r.id # "" THEN r.id ELSE items[i])

C8_Witness ==
    /\ Len(out) = 2
    /\ items = << OtherUrl, BareUrl >>
    /\ out[1].name = OtherUrl
    /\ out[2].name = BareUrl

\* C9: the value and the latency contribution of each metric depend on the
\* outcome of its own evaluator in this write only; a fault elsewhere changes
\* nothing of it, and nothing is carried over from an earlier write.
C9_MetricsAreIsolated ==
    pc # "escaped" =>
        /\ DOMAIN all_metrics = DOMAIN res
        /\ \A m \in DOMAIN res :
              /\ all_metrics[m] = OwnValue(m, res[m])
              /\ contrib[m] = OwnContribution(m, res[m])
        /\ total_latency = SumContrib(1)
        /\ Emitted => \A m \in Metrics : Last[m] = OwnValue(m, res[m])

C9_Witness ==
    /\ Emitted
    /\ idx = 2
    /\ out[1].latency = 80
    /\ res["license"] = Raise
    /\ \A m \in Metrics \ {"license"} : Last[m] = 1000 /\ contrib[m] = 10
    /\ Last.latency = 70

\* C10: in every write each of the eight evaluators is invoked exactly once,
\* whatever the earlier ones did (no retry, no skipping), and the record is
\* written only after all eight invocations.
C10_EachEvaluatorInvokedOnce ==
    /\ \A i, j \in 1..Len(invoked) : invoked[i] = invoked[j] => i = j
    /\ pc \in {"assemble", "write", "flush"} =>
          { invoked[i] : i \in 1..Len(invoked) } = Metrics
    /\ pc = "eval" => Len(out) < idx

C10_Witness ==
    /\ Emitted
    /\ res[EvalOrder[1]] = Raise
    /\ res[EvalOrder[8]] = Nominal
    /\ Len(invoked) = 8

====
